---- MODULE Spec2Model ----
(***************************************************************************)
(* A model of rfb-rs: the source catalog (download/federal_revenue.rs),    *)
(* the downloader (download/downloader.rs) and its configuration           *)
(* (download/mod.rs).                                                      *)
(*                                                                         *)
(* A URL is the sequence of its '/'-separated segments, so that            *)
(* filename_from_url (split('/').next_back()) is the last segment.  A      *)
(* local file is the sequence of its bytes; the data directory is a        *)
(* function from the names of the files that exist to their contents.      *)
(***************************************************************************)
EXTENDS Integers, Sequences, FiniteSets, TLC

(***************************************************************************)
(* Bounds of the model.                                                    *)
(***************************************************************************)
\* number of calendar years the wall clock ranges over
MaxYears == 1
\* largest number of catalog entries, from the head of the catalog, that the
\* origin and download() are modelled over
MaxFiles == 2
\* length in bytes of every file the origin serves
FileSize == 3
\* the configured chunk_size
ChunkSize == 2
\* largest configured max_retries
MaxRetries == 7
\* largest configured max_parallel
MaxParallel == 2
\* number of download() runs in one behaviour
MaxRuns == 2

(***************************************************************************)
(* Program constants.                                                      *)
(***************************************************************************)
MAX_BACKOFF_EXPONENT == 5
DEFAULT_MAX_RETRIES == 3
DEFAULT_MAX_PARALLEL == 4

Min(a, b) == IF a < b THEN a ELSE b

RECURSIVE Pow2(_)
Pow2(n) == IF n = 0 THEN 1 ELSE 2 * Pow2(n - 1)

Range(s) == {s[i] : i \in DOMAIN s}

(***************************************************************************)
(* Strings.  A string the code inspects character by character (a file     *)
(* name, a person's name) is the sequence of its characters.               *)
(***************************************************************************)
Digits == {"0", "1", "2", "3", "4", "5", "6", "7", "8", "9"}

\* char::is_whitespace, for the characters of the model
Whitespace == {" ", "\t"}

UpperOf ==
    [a |-> "A", b |-> "B", c |-> "C", d |-> "D", e |-> "E", f |-> "F",
     g |-> "G", h |-> "H", i |-> "I", j |-> "J", k |-> "K", l |-> "L",
     m |-> "M", n |-> "N", o |-> "O", p |-> "P", q |-> "Q", r |-> "R",
     s |-> "S", t |-> "T", u |-> "U", v |-> "V", w |-> "W", x |-> "X",
     y |-> "Y", z |-> "Z"]

\* str::to_uppercase
to_uppercase(s) ==
    [i \in DOMAIN s |-> IF s[i] \in DOMAIN UpperOf THEN UpperOf[s[i]] ELSE s[i]]

\* str::contains
contains(s, sub) ==
    \E i \in 1..(Len(s) - Len(sub) + 1) : SubSeq(s, i, i + Len(sub) - 1) = sub

\* str::ends_with
ends_with(s, sub) ==
    Len(s) >= Len(sub) /\ SubSeq(s, Len(s) - Len(sub) + 1, Len(s)) = sub

\* Path::extension: what follows the last dot of the file name, none when
\* there is no dot or the only dot begins the name
NoExtension == <<"(none)">>

extension(fname) ==
    LET dots == {i \in DOMAIN fname : fname[i] = "."}
    IN  IF dots = {} THEN NoExtension
        ELSE LET last == CHOOSE i \in dots : \A j \in dots : j <= i
             IN  IF last = 1 THEN NoExtension
                 ELSE SubSeq(fname, last + 1, Len(fname))

\* str::trim: the string without its leading and trailing whitespace
trim(s) ==
    LET inner == {i \in DOMAIN s : s[i] \notin Whitespace}
    IN  IF inner = {} THEN <<>>
        ELSE SubSeq(s, CHOOSE i \in inner : \A j \in inner : i <= j,
                       CHOOSE i \in inner : \A j \in inner : j <= i)

(***************************************************************************)
(* FederalRevenue: the source catalog.                                     *)
(***************************************************************************)
BASE_URL ==
    <<"https:", "", "arquivos.receitafederal.gov.br", "dados", "cnpj",
      "dados_abertos_cnpj">>

\* the wall clock values of the model: chrono::Utc::now(), year and month
Periods == [year : {2025 + y : y \in 0..(MaxYears - 1)}, month : 1..12]

\* format!("{:02}", m)
Pad2(m) == IF m < 10 THEN "0" \o ToString(m) ELSE ToString(m)

get_year_month(clock) == ToString(clock.year) \o "-" \o Pad2(clock.month)

get_base_url_with_date(clock) == Append(BASE_URL, get_year_month(clock))

\* for i in 0..n { urls.push(format!("{}<prefix>{}.zip", base, i)) }
PartitionUrls(base, prefix, n) ==
    [i \in 1..n |-> Append(base, prefix \o ToString(i - 1) \o ".zip")]

file_urls_reordered(clock) ==
    LET base == get_base_url_with_date(clock)
    IN  PartitionUrls(base, "Empresas", 10)
        \o PartitionUrls(base, "Estabelecimentos", 10)
        \o PartitionUrls(base, "Socios", 10)
        \o << Append(base, "Cnaes.zip"),
              Append(base, "Motivos.zip"),
              Append(base, "Municipios.zip"),
              Append(base, "Naturezas.zip"),
              Append(base, "Paises.zip"),
              Append(base, "Qualificacoes.zip"),
              Append(base, "Simples.zip") >>

file_urls_dup(clock) ==
    LET base == get_base_url_with_date(clock)
    IN  PartitionUrls(base, "Estabelecimentos", 10)
        \o PartitionUrls(base, "Empresas", 10)
        \o PartitionUrls(base, "Empresas", 10)
        \o << Append(base, "Cnaes.zip"),
              Append(base, "Motivos.zip"),
              Append(base, "Municipios.zip"),
              Append(base, "Naturezas.zip"),
              Append(base, "Paises.zip"),
              Append(base, "Qualificacoes.zip"),
              Append(base, "Simples.zip") >>

file_urls(clock) ==
    LET base == get_base_url_with_date(clock)
    IN  PartitionUrls(base, "Estabelecimentos", 10)
        \o PartitionUrls(base, "Empresas", 10)
        \o PartitionUrls(base, "Socios", 10)
        \o << Append(base, "Cnaes.zip"),
              Append(base, "Motivos.zip"),
              Append(base, "Municipios.zip"),
              Append(base, "Naturezas.zip"),
              Append(base, "Paises.zip"),
              Append(base, "Qualificacoes.zip"),
              Append(base, "Simples.zip") >>

\* url.split('/').next_back(): split always yields at least one segment
filename_from_url(url) == url[Len(url)]

\* Path::exists on data_dir.join(filename)
Exists(d, filename) == filename \in DOMAIN d

list_urls_noskip(cfg, d, clock) == file_urls(clock)

\* Downloader::list_urls; Vec::retain keeps, in order, the elements that
\* satisfy the closure, as SelectSeq does
list_urls(cfg, d, clock) ==
    LET urls == file_urls(clock)
        Keep(url) == ~Exists(d, filename_from_url(url))
    IN  IF cfg.skip_existing THEN SelectSeq(urls, Keep) ELSE urls

(***************************************************************************)
(* DownloadConfig                                                          *)
(***************************************************************************)
Configs(retries, parallels, chunks) ==
    [max_retries : retries, max_parallel : parallels, chunk_size : chunks,
     skip_existing : BOOLEAN, restart : BOOLEAN]

\* DownloadConfig::default() with the flags of the command line
DefaultConfigs ==
    Configs({DEFAULT_MAX_RETRIES}, {DEFAULT_MAX_PARALLEL}, {ChunkSize})


\* the configurations of the transfer specification: one transfer at a time,
\* max_retries large enough for the exponent to pass MAX_BACKOFF_EXPONENT
TransferConfigs == Configs(1..MaxRetries, {1}, {ChunkSize})

\* the configurations of the parallel specification
ParallelConfigs ==
    {c \in Configs({2}, 1..MaxParallel, {ChunkSize}) :
        ~c.restart /\ ~c.skip_existing}

(***************************************************************************)
(* The origin.  Every file it serves has the bytes 1, 2, ..., FileSize, so *)
(* that a byte names its offset.  A HEAD answers with a network error or   *)
(* with headers; a GET with a failure (a non-2xx status) or with a body.    *)
(*  A range request is answered    *)
(* with the bytes asked for, with fewer of them (down to none), or, by an  *)
(* origin that ignores the Range header, with the whole file.  A network    *)
(* error on a GET is handled as a non-2xx status is: download_chunk and    *)
(* download_simple return Err for both.                                    *)
(***************************************************************************)
Origin == [i \in 1..FileSize |-> i]

HeadOutcomes ==
    {[ok |-> FALSE, content_length |-> 0, supports_range |-> FALSE]}
    \cup [ok : {TRUE}, content_length : {0, FileSize}, supports_range : BOOLEAN]

FailStatuses == {404, 503}

\* the statuses the specification calls permanent
PermanentStatuses == {400, 401, 403, 404, 410}

ExactBody(start, end) == SubSeq(Origin, start + 1, Min(end + 1, FileSize))

RangeBodies(start, end) ==
    {SubSeq(Origin, start + 1, e) : e \in start..Min(end + 1, FileSize)}
    \cup {Origin}

\* every body a range request of the model can be answered with
Bodies == UNION {RangeBodies(start, FileSize) : start \in 0..FileSize}

WholeBodies == {Origin, SubSeq(Origin, 1, FileSize - 1)}

(***************************************************************************)
(* State                                                                   *)
(***************************************************************************)
VARIABLES
    now,      \* the wall clock: [year, month]
    dir,      \* data_dir: file name -> bytes, for the files that exist
    config,   \* the DownloadConfig of the Downloader
    urls,     \* the value the last call of file_urls returned
    listed,   \* the last call of list_urls: the files that existed, the result
    phase,    \* download(): "idle", "running", "returned", "killed"
    runsLeft, \* number of download() calls the behaviour still makes
    prev,     \* how the previous run ended: "none", "killed" or its result
    queue,    \* to_download: the entries the stream has not yet yielded
    xfer,     \* file name -> the state of its download_file future
    results,  \* the results collected so far, in completion order
    ret,      \* what download() returned: [result, file]
    honest,   \* every body served so far was the bytes asked for
    scope,    \* number of catalog entries the behaviour is modelled over
    tdir,     \* data_dir as transform and check read it: file name -> file
    tpc,      \* the transform command: [at, i], the stage and its iteration
    lookups,  \* Transformer.lookups: the six code maps
    extracted,   \* the archives extract_all_zips has extracted
    lookupScan,  \* what load_from_directory found when it read data_dir
    started,  \* the fact datasets in the order their processing began
    processed,   \* CSV file name -> number of times it was processed
    checked,  \* the last call of check_zip_integrity: [file, result]
    resolved, \* the last call of a code resolver: [resolver, code, label]
              \* and whether the lookups had been loaded
    name,     \* the name handed to clean_name
    cleaned,  \* the outputs of the successive calls of clean_name
    counts,   \* the row counters of the transform run, per fact dataset
    cli,      \* the download command: its arguments, exit code and stderr
    cmd,      \* the check command: its arguments, position and counters
    tdir0,    \* data_dir as it was when the command began
    extractions  \* the calls of extract_zip made so far: [io, ok]

vars == <<now, dir, config, urls, listed, phase, runsLeft, prev, queue, xfer,
          results, ret, honest, scope, tdir, tpc, lookups, extracted,
          lookupScan, started, processed, checked, resolved, name, cleaned,
          counts, cli, cmd, tdir0, extractions>>

catalogVars == <<now, urls, listed, scope>>

downloadVars == <<dir, config, phase, runsLeft, prev, queue, xfer, results,
                  ret, honest>>

transformVars == <<tdir, tpc, lookups, extracted, lookupScan, started,
                   processed, counts>>

toolVars == <<checked, resolved, name, cleaned>>

commandVars == <<cli, cmd, tdir0, extractions>>

NotListed == [called |-> FALSE, at |-> {}, urls |-> <<>>]

NoRet == [result |-> "none", file |-> ""]

\* Lookups::new: six empty maps
NewLookups ==
    [countries |-> <<>>, cities |-> <<>>, legal_natures |-> <<>>,
     qualifications |-> <<>>, cnaes |-> <<>>, motives |-> <<>>]

NotScanned == [called |-> FALSE, pending |-> {}, loaded |-> {}]

NoCheck == [file |-> <<>>, result |-> "none"]

NoAnswer ==
    [resolver |-> "none", code |-> 0, label |-> "none", loaded |-> FALSE]

\* no row has been read, written or rejected
NoCounts == <<>>

\* no command has been run
NoCli == [parallel |-> 1, at |-> "idle", exit |-> <<>>, stderr |-> <<>>]

NoCmd ==
    [at |-> "idle", delete |-> FALSE, pending |-> {}, checked |-> 0,
     errors |-> 0, verdicts |-> <<>>]

CommandsIdle ==
    /\ cli = NoCli
    /\ cmd = NoCmd
    /\ tdir0 = <<>>
    /\ extractions = <<>>

\* the transform command has not been started
TransformIdle ==
    /\ tdir = <<>>
    /\ tpc = [at |-> "idle", i |-> 0]
    /\ lookups = NewLookups
    /\ extracted = {}
    /\ lookupScan = NotScanned
    /\ started = <<>>
    /\ processed = <<>>
    /\ counts = NoCounts

\* no file has been checked, no code resolved, no name cleaned
ToolsIdle ==
    /\ checked = NoCheck
    /\ resolved = NoAnswer
    /\ name = <<>>
    /\ cleaned = <<>>

\* File::create(path): the file exists and is empty
FileCreate(d, f) == [g \in DOMAIN d \cup {f} |-> IF g = f THEN <<>> ELSE d[g]]

FileWrite_front(d, f, bytes) == [d EXCEPT ![f] = bytes \o @]

\* write_all on the open file: the bytes are appended
FileWrite(d, f, bytes) == [d EXCEPT ![f] = @ \o bytes]

\* the futures buffer_unordered holds that have not completed
InFlight(xf) == {f \in DOMAIN xf : xf[f].pc # "done"}

CanSpawn_over ==
    /\ phase = "running"
    /\ queue # <<>>
    /\ Cardinality(InFlight(xfer)) <= config.max_parallel

\* buffer_unordered(max_parallel) takes the next entry of the stream while it
\* holds fewer than max_parallel futures
CanSpawn ==
    /\ phase = "running"
    /\ queue # <<>>
    /\ Cardinality(InFlight(xfer)) < config.max_parallel

\* for result in results { result?; }: the first error of the vector
RECURSIVE FirstError(_)
FirstError(rs) ==
    IF rs = <<>> THEN [result |-> "Ok", file |-> ""]
    ELSE IF Head(rs).result # "Ok" THEN Head(rs)
         ELSE FirstError(Tail(rs))

RetryExhausted_off(retries, max_retries) == retries > max_retries

\* if retries >= config.max_retries { return Err(MaxRetriesExceeded) }
RetryExhausted(retries, max_retries) == retries >= max_retries

BackoffSecs_nocap(retries) == Pow2(retries)

\* Duration::from_secs(2u64.pow(retries.min(MAX_BACKOFF_EXPONENT)))
BackoffSecs(retries) == Pow2(Min(retries, MAX_BACKOFF_EXPONENT))

\* the unsigned integers of the model have WordBits bits, as u64 has 64
WordBits == 16

WordModulus == Pow2(WordBits)

\* downloaded + chunk_size - 1 is less than zero: the subtraction overflows
RangeUnderflows(cfg, total_size, downloaded) ==
    downloaded + Min(cfg.chunk_size, total_size - downloaded) - 1 < 0

\* range_end of the window that starts at downloaded, in unsigned arithmetic
\* that wraps
RangeEnd(cfg, total_size, downloaded) ==
    (downloaded + Min(cfg.chunk_size, total_size - downloaded) - 1)
        % WordModulus

\* whether the overflow of an unsigned subtraction panics: it does in a
\* build with overflow checks and wraps in a build without, so both can
\* happen when the subtraction overflows
OverflowPanics(cfg, total_size, downloaded) ==
    IF RangeUnderflows(cfg, total_size, downloaded) THEN BOOLEAN ELSE {FALSE}

\* the state of a download_file future that has sent its HEAD request
NewTransfer(d, f) ==
    [pc |-> "head", path |-> "none", total_size |-> 0, downloaded |-> 0,
     range_end |-> 0, retries |-> 0, result |-> "none",
     attempts |-> 0, slept |-> 0, first |-> -1, last |-> -1,
     preLen |-> IF Exists(d, f) THEN Len(d[f]) ELSE -1]

\* a download() that would return at the first error it sees
Complete_failfast(f, t, res) ==
    LET xf == [xfer EXCEPT ![f] = [t EXCEPT !.pc = "done", !.result = res]]
        rs == Append(results, [result |-> res, file |-> f])
    IN  /\ xfer' = xf
        /\ results' = rs
        /\ IF res # "Ok" \/ (queue = <<>> /\ InFlight(xf) = {})
           THEN phase' = "returned" /\ ret' = FirstError(rs)
           ELSE UNCHANGED <<phase, ret>>

\* a future completes with res: buffer_unordered yields it to collect, and
\* when it was the last one download() looks for the first error and returns
Complete(f, t, res) ==
    LET xf == [xfer EXCEPT ![f] = [t EXCEPT !.pc = "done", !.result = res]]
        rs == Append(results, [result |-> res, file |-> f])
    IN  /\ xfer' = xf
        /\ results' = rs
        /\ IF queue = <<>> /\ InFlight(xf) = {}
           THEN phase' = "returned" /\ ret' = FirstError(rs)
           ELSE UNCHANGED <<phase, ret>>

(***************************************************************************)
(* Downloader::download                                                    *)
(***************************************************************************)
\* the catalog entries a run of the model considers
Selected == SubSeq(file_urls(now), 1, scope)

\* lines 40-54: the file names of the entries that are not skipped
to_download(cfg, d) ==
    LET names == [i \in DOMAIN Selected |-> filename_from_url(Selected[i])]
        Keep(f) == ~(cfg.skip_existing /\ Exists(d, f))
    IN  SelectSeq(names, Keep)

\* download() is called: it builds to_download and returns Ok at once when it
\* is empty, otherwise it hands the entries to the stream
StartDownload ==
    /\ phase \in {"idle", "returned", "killed"}
    /\ runsLeft > 0
    /\ runsLeft' = runsLeft - 1
    /\ prev' = IF phase = "idle" THEN "none"
               ELSE IF phase = "killed" THEN "killed" ELSE ret.result
    /\ xfer' = <<>>
    /\ results' = <<>>
    /\ LET td == to_download(config, dir)
       IN  IF td = <<>>
           THEN /\ phase' = "returned"
                /\ ret' = [result |-> "Ok", file |-> ""]
                /\ queue' = <<>>
           ELSE /\ phase' = "running"
                /\ ret' = NoRet
                /\ queue' = td
    /\ UNCHANGED <<dir, config, honest, catalogVars, transformVars, toolVars,
                   commandVars>>

\* buffer_unordered takes the next entry and polls its future: download_file
\* sends the HEAD request
Spawn ==
    /\ CanSpawn
    /\ LET f == Head(queue)
       IN  xfer' = (f :> NewTransfer(dir, f)) @@ xfer
    /\ queue' = Tail(queue)
    /\ UNCHANGED <<dir, config, honest, phase, runsLeft, prev, results, ret,
                   catalogVars, transformVars, toolVars,
                   commandVars>>

\* download_file, lines 127-151: the HEAD request returns.  A network error
\* ends the transfer; otherwise download_chunked creates the file, computes
\* the first window, where chunk_size = 0 makes the subtraction overflow, and
\* sends the first range request, or download_simple sends the GET
HeadResponse(f, h) ==
    /\ phase = "running" /\ ~CanSpawn
    /\ f \in DOMAIN xfer /\ xfer[f].pc = "head"
    /\ IF ~h.ok
       THEN /\ Complete(f, xfer[f], "HttpError")
            /\ UNCHANGED dir
       ELSE IF h.supports_range /\ h.content_length > 0
       THEN /\ dir' = FileCreate(dir, f)
            /\ \E panics \in OverflowPanics(config, h.content_length, 0) :
                  IF panics
                  THEN /\ phase' = "panicked"
                       /\ xfer' = [xfer EXCEPT ![f] =
                              [@ EXCEPT !.pc = "done", !.path = "chunked",
                                        !.total_size = h.content_length,
                                        !.result = "panic"]]
                       /\ UNCHANGED <<results, ret>>
                  ELSE /\ xfer' = [xfer EXCEPT ![f] =
                              [@ EXCEPT !.pc = "chunk", !.path = "chunked",
                                        !.total_size = h.content_length,
                                        !.downloaded = 0,
                                        !.range_end =
                                            RangeEnd(config,
                                                     h.content_length, 0),
                                        !.retries = 0, !.attempts = 1,
                                        !.slept = 0, !.first = 0]]
                       /\ UNCHANGED <<phase, results, ret>>
       ELSE /\ xfer' = [xfer EXCEPT ![f] =
                   [@ EXCEPT !.pc = "simple", !.path = "simple",
                             !.total_size = h.content_length,
                             !.attempts = 1]]
            /\ UNCHANGED <<dir, phase, results, ret>>
    /\ UNCHANGED <<config, honest, runsLeft, prev, queue,
                   catalogVars, transformVars, toolVars,
                   commandVars>>

\* download_chunked, lines 172 and 184-190: the range request succeeds; the
\* body is appended and the next window is requested, or the transfer ends
ChunkOk(f, body) ==
    /\ phase = "running" /\ ~CanSpawn
    /\ f \in DOMAIN xfer /\ xfer[f].pc = "chunk"
    /\ LET t == xfer[f]
           downloaded == t.downloaded + Len(body)
       IN  /\ body \in RangeBodies(t.downloaded, t.range_end)
           /\ dir' = FileWrite(dir, f, body)
           /\ honest' = (honest /\ body = ExactBody(t.downloaded, t.range_end))
           /\ IF downloaded < t.total_size
              THEN /\ xfer' = [xfer EXCEPT ![f] =
                          [t EXCEPT !.downloaded = downloaded,
                                    !.range_end =
                                        RangeEnd(config, t.total_size, downloaded),
                                    !.retries = 0, !.attempts = 1, !.slept = 0,
                                    !.last = -1]]
                   /\ UNCHANGED <<phase, results, ret>>
              ELSE Complete(f, [t EXCEPT !.downloaded = downloaded], "Ok")
    /\ UNCHANGED <<config, runsLeft, prev, queue,
                   catalogVars, transformVars, toolVars,
                   commandVars>>

\* download_chunked, lines 173-180: the range request fails (download_chunk
\* returns Err for a network error and for every non-2xx status)
ChunkFail(f, status) ==
    /\ phase = "running" /\ ~CanSpawn
    /\ f \in DOMAIN xfer /\ xfer[f].pc = "chunk"
    /\ LET t == xfer[f]
           retries == t.retries + 1
       IN  IF RetryExhausted(retries, config.max_retries)
           THEN Complete(f, [t EXCEPT !.retries = retries, !.last = status],
                         "MaxRetriesExceeded")
           ELSE /\ xfer' = [xfer EXCEPT ![f] =
                       [t EXCEPT !.pc = "sleep", !.retries = retries,
                                 !.last = status,
                                 !.slept = @ + BackoffSecs(retries)]]
                /\ UNCHANGED <<phase, results, ret>>
    /\ UNCHANGED <<dir, config, honest, runsLeft, prev, queue,
                   catalogVars, transformVars, toolVars,
                   commandVars>>

\* the backoff sleep ends and the loop sends the same range request again
Wake(f) ==
    /\ phase = "running" /\ ~CanSpawn
    /\ f \in DOMAIN xfer /\ xfer[f].pc = "sleep"
    /\ xfer' = [xfer EXCEPT ![f] =
           [@ EXCEPT !.pc = "chunk", !.attempts = @ + 1]]
    /\ UNCHANGED <<dir, config, honest, phase, runsLeft, prev, queue, results, ret,
                   catalogVars, transformVars, toolVars,
                   commandVars>>

\* download_simple, lines 233-241: the GET succeeds and the body is written
SimpleOk(f, body) ==
    /\ phase = "running" /\ ~CanSpawn
    /\ f \in DOMAIN xfer /\ xfer[f].pc = "simple"
    /\ body \in WholeBodies
    /\ dir' = FileWrite(FileCreate(dir, f), f, body)
    /\ honest' = (honest /\ body = Origin)
    /\ Complete(f, [xfer[f] EXCEPT !.downloaded = Len(body)], "Ok")
    /\ UNCHANGED <<config, runsLeft, prev, queue,
                   catalogVars, transformVars, toolVars,
                   commandVars>>

\* download_simple, lines 223-231: the GET fails and the error is returned
SimpleFail(f, status) ==
    /\ phase = "running" /\ ~CanSpawn
    /\ f \in DOMAIN xfer /\ xfer[f].pc = "simple"
    /\ Complete(f, [xfer[f] EXCEPT !.last = status], "HttpError")
    /\ UNCHANGED <<dir, config, honest, runsLeft, prev, queue,
                   catalogVars, transformVars, toolVars,
                   commandVars>>

\* the process is interrupted during download(): the files stay as they are
Interrupt ==
    /\ phase = "running"
    /\ phase' = "killed"
    /\ xfer' = <<>>
    /\ queue' = <<>>
    /\ results' = <<>>
    /\ UNCHANGED <<dir, config, honest, runsLeft, prev, ret,
                   catalogVars, transformVars, toolVars,
                   commandVars>>

\* the file names of the catalog entries the model may consider
Files ==
    LET all == file_urls(now)
    IN  {filename_from_url(all[i]) : i \in 1..MaxFiles}

InitWith(cfgs, n, runs) ==
    /\ now = [year |-> 2025, month |-> 11]
    /\ dir = <<>>
    /\ config \in cfgs
    /\ urls = <<>>
    /\ listed = NotListed
    /\ phase = "idle"
    /\ runsLeft = runs
    /\ prev = "none"
    /\ queue = <<>>
    /\ xfer = <<>>
    /\ results = <<>>
    /\ ret = NoRet
    /\ honest = TRUE
    /\ scope = n
    /\ TransformIdle
    /\ CommandsIdle
    /\ ToolsIdle

Next ==
    \/ StartDownload
    \/ Spawn
    \/ \E f \in Files, h \in HeadOutcomes : HeadResponse(f, h)
    \/ \E f \in Files, body \in Bodies : ChunkOk(f, body)
    \/ \E f \in Files, status \in FailStatuses : ChunkFail(f, status)
    \/ \E f \in Files : Wake(f)
    \/ \E f \in Files, body \in WholeBodies : SimpleOk(f, body)
    \/ \E f \in Files, status \in FailStatuses : SimpleFail(f, status)
    \/ Interrupt

\* the request or the sleep of a transfer returns, or download() goes on
Progress ==
    \/ StartDownload
    \/ Spawn
    \/ \E f \in Files, h \in HeadOutcomes : HeadResponse(f, h)
    \/ \E f \in Files, body \in Bodies : ChunkOk(f, body)
    \/ \E f \in Files, status \in FailStatuses : ChunkFail(f, status)
    \/ \E f \in Files : Wake(f)
    \/ \E f \in Files, body \in WholeBodies : SimpleOk(f, body)
    \/ \E f \in Files, status \in FailStatuses : SimpleFail(f, status)

\* one file, every max_retries: the transfer of a file in detail
Init == InitWith(TransferConfigs, 1, MaxRuns)

Spec == Init /\ [][Next]_vars

\* the configurations DownloadConfig::validate rejects, and chunk_size = 0,
\* next to configurations it accepts
EdgeConfigs == Configs({0, 2}, {0, 1}, {0, ChunkSize})

\* one file and one call of download() under these configurations; every
\* request that is sent returns, and so does every sleep
InitEdge == InitWith(EdgeConfigs, 1, 1)

SpecEdge == InitEdge /\ [][Next]_vars /\ WF_vars(Progress)

\* several files and several transfers at a time, in one call of download()
InitParallel == InitWith(ParallelConfigs, MaxFiles, 1)

SpecParallel == InitParallel /\ [][Next]_vars

(***************************************************************************)
(* The catalog specification: file_urls and list_urls are called while     *)
(* files appear in the data directory.                                     *)
(***************************************************************************)
\* the names of the files that appear: the first and the last entry of the
\* catalog and a file that is no entry of it
TouchNames == {"Estabelecimentos0.zip", "Simples.zip", "notes.txt"}

TouchBytes == {<<>>, <<1>>}

\* FederalRevenue::file_urls() is called
CallFileUrls ==
    /\ urls' = file_urls(now)
    /\ UNCHANGED <<now, dir, config, listed, phase, runsLeft, prev, queue, xfer,
                   results, ret, honest, scope, transformVars, toolVars,
                   commandVars>>

\* Downloader::list_urls() is called
CallListUrls ==
    /\ listed' = [called |-> TRUE, at |-> DOMAIN dir,
                  urls |-> list_urls(config, dir, now)]
    /\ UNCHANGED <<now, dir, config, urls, phase, runsLeft, prev, queue, xfer,
                   results, ret, honest, scope, transformVars, toolVars,
                   commandVars>>

\* a file that does not exist is created in data_dir
Touch(f, bytes) ==
    /\ ~Exists(dir, f)
    /\ dir' = FileWrite(FileCreate(dir, f), f, bytes)
    /\ UNCHANGED <<now, config, urls, listed, phase, runsLeft, prev, queue,
                   xfer, results, ret, honest, scope, transformVars, toolVars,
                   commandVars>>

InitCatalog ==
    /\ now \in Periods
    /\ dir = <<>>
    /\ config \in {c \in DefaultConfigs : ~c.restart}
    /\ urls = <<>>
    /\ listed = NotListed
    /\ phase = "idle"
    /\ runsLeft = 0
    /\ prev = "none"
    /\ queue = <<>>
    /\ xfer = <<>>
    /\ results = <<>>
    /\ ret = NoRet
    /\ honest = TRUE
    /\ scope = 0
    /\ TransformIdle
    /\ CommandsIdle
    /\ ToolsIdle

NextCatalog ==
    \/ CallFileUrls
    \/ CallListUrls
    \/ \E f \in TouchNames, bytes \in TouchBytes : Touch(f, bytes)

SpecCatalog == InitCatalog /\ [][NextCatalog]_vars

(***************************************************************************)
(* Lookups: the six code maps and their loader                             *)
(***************************************************************************)
None == "None"

\* a get that would answer an absent code with a label of another code
get_fabricating(map, code) ==
    IF code \in DOMAIN map THEN map[code]
    ELSE IF DOMAIN map # {} THEN map[CHOOSE c \in DOMAIN map : TRUE]
    ELSE None

\* HashMap::insert and HashMap::get
insert(map, code, label) == (code :> label) @@ map

get(map, code) == IF code \in DOMAIN map THEN map[code] ELSE None

\* the words the loader and the transformer look for in a file name
K_PAIS == <<"P", "A", "I", "S">>
K_MUNIC == <<"M", "U", "N", "I", "C">>
K_NATUREZA == <<"N", "A", "T", "U", "R", "E", "Z", "A">>
K_NATJU == <<"N", "A", "T", "J", "U">>
K_QUALIF == <<"Q", "U", "A", "L", "I", "F">>
K_QUALS == <<"Q", "U", "A", "L", "S">>
K_CNAE == <<"C", "N", "A", "E">>
K_MOTIV == <<"M", "O", "T", "I", "V">>
K_ESTABELE == <<"E", "S", "T", "A", "B", "E", "L", "E">>
K_EMPRE == <<"E", "M", "P", "R", "E">>
K_SOCIO == <<"S", "O", "C", "I", "O">>
K_SIMPLES == <<"S", "I", "M", "P", "L", "E", "S">>
EXT_CSV == <<"c", "s", "v">>
EXT_ZIP == <<"z", "i", "p">>

\* load_from_directory, lines 47-59: the map a CSV file name selects
TableOf(fname) ==
    LET filename_upper == to_uppercase(fname)
    IN  IF contains(filename_upper, K_PAIS) THEN "countries"
        ELSE IF contains(filename_upper, K_MUNIC) THEN "cities"
        ELSE IF contains(filename_upper, K_NATUREZA)
                \/ contains(filename_upper, K_NATJU) THEN "legal_natures"
        ELSE IF contains(filename_upper, K_QUALIF)
                \/ contains(filename_upper, K_QUALS) THEN "qualifications"
        ELSE IF contains(filename_upper, K_CNAE) THEN "cnaes"
        ELSE IF contains(filename_upper, K_MOTIV) THEN "motives"
        ELSE None

\* a file of data_dir is an archive with entries or a text file with rows;
\* a CSV reader returns an error for a file that is no text or has no rows
Text(rows) == [type |-> "text", rows |-> rows]

Archive(entries) == [type |-> "archive", entries |-> entries]

Readable(file) == file.type = "text" /\ file.rows # <<>>

\* load_countries .. load_motives: every row with a code and a name is
\* inserted, in file order (a field is <<v>>, or <<>> when it is null)
RECURSIVE load_rows(_, _)
load_rows(map, rows) ==
    IF rows = <<>> THEN map
    ELSE LET row == Head(rows)
             m == IF row.code # <<>> /\ row.name # <<>>
                  THEN insert(map, row.code[1], row.name[1]) ELSE map
         IN  load_rows(m, Tail(rows))

\* the CSV files of a directory that select a map
LookupFiles(d) ==
    {f \in DOMAIN d : extension(f) = EXT_CSV /\ TableOf(f) # None}

\* load_from_directory: the maps after the files fs have been loaded.  The
\* directories considered hold at most one file for each map, so the order
\* in which read_dir yields them does not change the result.
RECURSIVE load_from_directory(_, _, _)
load_from_directory(lk, d, fs) ==
    IF fs = {} THEN lk
    ELSE LET f == CHOOSE x \in fs : TRUE
             t == TableOf(f)
         IN  load_from_directory([lk EXCEPT ![t] = load_rows(@, d[f].rows)],
                                 d, fs \ {f})

(***************************************************************************)
(* The data directory of the transform command                             *)
(***************************************************************************)
\* number of partitions of the establishments dataset that were downloaded
MaxParts == 2

DigitChars == <<"0", "1", "2", "3", "4", "5", "6", "7", "8", "9">>

P_Cnaes == <<"C", "n", "a", "e", "s">>
P_Motivos == <<"M", "o", "t", "i", "v", "o", "s">>
P_Municipios == <<"M", "u", "n", "i", "c", "i", "p", "i", "o", "s">>
P_Naturezas == <<"N", "a", "t", "u", "r", "e", "z", "a", "s">>
P_Paises == <<"P", "a", "i", "s", "e", "s">>
P_Qualificacoes ==
    <<"Q", "u", "a", "l", "i", "f", "i", "c", "a", "c", "o", "e", "s">>
P_Simples == <<"S", "i", "m", "p", "l", "e", "s">>
P_Empresas == <<"E", "m", "p", "r", "e", "s", "a", "s">>
P_Estabelecimentos ==
    <<"E", "s", "t", "a", "b", "e", "l", "e", "c", "i", "m", "e", "n", "t",
      "o", "s">>
P_Socios == <<"S", "o", "c", "i", "o", "s">>

ZipName(prefix) == prefix \o <<".">> \o EXT_ZIP

CsvName(key) == key \o <<".">> \o EXT_CSV

\* an archive with one entry, a CSV file
OneEntry(fname, rows) ==
    Archive(<<[name |-> fname, header_ok |-> TRUE, data_ok |-> TRUE,
               content |-> Text(rows)]>>)

LookupRow(code, label) == [code |-> <<code>>, name |-> <<label>>]

FactRows == <<[cnpj |-> 1]>>

\* the archives of a period after download: the six lookup archives, the
\* first MaxParts partitions of the establishments, one partition of the
\* companies and of the partners, and the simples archive
LookupArchives ==
    (ZipName(P_Cnaes) :> OneEntry(CsvName(K_CNAE), <<LookupRow(1, "CNAE-1")>>))
    @@ (ZipName(P_Motivos) :>
            OneEntry(CsvName(K_MOTIV), <<LookupRow(1, "MOTIVO-1")>>))
    @@ (ZipName(P_Municipios) :>
            OneEntry(CsvName(K_MUNIC), <<LookupRow(1, "MUNICIPIO-1")>>))
    @@ (ZipName(P_Naturezas) :>
            OneEntry(CsvName(K_NATJU), <<LookupRow(1, "NATUREZA-1")>>))
    @@ (ZipName(P_Paises) :>
            OneEntry(CsvName(K_PAIS), <<LookupRow(1, "PAIS-1")>>))
    @@ (ZipName(P_Qualificacoes) :>
            OneEntry(CsvName(K_QUALS), <<LookupRow(1, "QUALIFICACAO-1")>>))

Partition(prefix, key, k) ==
    ZipName(prefix \o <<DigitChars[k + 1]>>) :>
        OneEntry(CsvName(key \o <<DigitChars[k + 1]>>), FactRows)

RECURSIVE Partitions(_, _, _)
Partitions(prefix, key, n) ==
    IF n = 0 THEN <<>>
    ELSE Partition(prefix, key, n - 1) @@ Partitions(prefix, key, n - 1)

FactArchives ==
    Partitions(P_Estabelecimentos, K_ESTABELE, MaxParts)
    @@ Partitions(P_Empresas, K_EMPRE, 1)
    @@ Partitions(P_Socios, K_SOCIO, 1)
    @@ (ZipName(P_Simples) :> OneEntry(CsvName(K_SIMPLES), FactRows))

Downloaded == LookupArchives @@ FactArchives

\* the archive z stored with the data of its entries damaged
Damaged(d, z) ==
    [d EXCEPT ![z].entries = [i \in DOMAIN @ |-> [@[i] EXCEPT !.data_ok = FALSE]]]

Zips(d) == {f \in DOMAIN d : extension(f) = EXT_ZIP}

(***************************************************************************)
(* Transformer and the transform command                                   *)
(***************************************************************************)
\* TransformConfig::default, data_dir
DATA_DIR == <<"d", "a", "t", "a">>

\* the fact datasets in the order transform() processes them, lines 41-44
Stages == <<"estabelecimentos", "empresas", "socios", "simples">>

\* the range of the loops of process_estabelecimentos, process_empresas and
\* process_socios
PARTITIONS == 10

Iterations(stage) == IF stage = "simples" THEN 1 ELSE PARTITIONS

\* the pattern process_* formats for its iteration i
Pattern(stage, i) ==
    LET key == CASE stage = "estabelecimentos" -> K_ESTABELE
                 [] stage = "empresas" -> K_EMPRE
                 [] stage = "socios" -> K_SOCIO
                 [] stage = "simples" -> K_SIMPLES
        index == IF stage = "simples" THEN <<>> ELSE <<DigitChars[i + 1]>>
    IN  DATA_DIR \o <<"/", "*">> \o key \o index \o <<".">> \o EXT_CSV

\* find_csv_by_pattern, lines 195-204: the test a CSV file name passes
pattern_matches(pattern, filename) ==
    LET pattern_upper == to_uppercase(pattern)
        upper == to_uppercase(filename)
    IN  \/ contains(pattern_upper, K_ESTABELE) /\ contains(upper, K_ESTABELE)
        \/ contains(pattern_upper, K_EMPRE) /\ contains(upper, K_EMPRE)
        \/ contains(pattern_upper, K_SOCIO) /\ contains(upper, K_SOCIO)
        \/ contains(pattern_upper, K_SIMPLES) /\ contains(upper, K_SIMPLES)

NoPath == <<>>

\* find_csv_by_pattern: the paths it can return.  It returns the first file
\* read_dir yields that passes the test, and read_dir yields the files in no
\* specified order: every passing file can be the one returned.
find_csv_by_pattern(d, pattern) ==
    LET passing == {f \in DOMAIN d : /\ extension(f) = EXT_CSV
                                     /\ pattern_matches(pattern, f)}
    IN  IF passing = {} THEN {NoPath} ELSE passing

\* an input/output error of the operating system while extract_zip writes:
\* none (at is 0), or one at entry at, either when File::create opens the
\* target (the target is left as it was) or when copy writes the data (the
\* target has been created and holds what was written before the error)
NoFault == [at |-> 0, copy |-> FALSE]

Faults(n) == {NoFault} \cup [at : 1..n, copy : BOOLEAN]

RECURSIVE extract_entries_keep(_, _, _, _)
extract_entries_keep(d, entries, i, io) ==
    IF i > Len(entries) THEN [dir |-> d, ok |-> TRUE]
    ELSE LET e == entries[i]
         IN  IF ~e.header_ok THEN [dir |-> d, ok |-> FALSE]
             ELSE IF ends_with(e.name, <<"/">>)
             THEN IF io.at = i THEN [dir |-> d, ok |-> FALSE]
                  ELSE extract_entries_keep(d, entries, i + 1, io)
             ELSE IF io.at = i /\ ~io.copy THEN [dir |-> d, ok |-> FALSE]
             ELSE IF ~e.data_ok \/ io.at = i
             THEN [dir |-> d @@ (e.name :> Text(<<>>)), ok |-> FALSE]
             ELSE extract_entries_keep(d @@ (e.name :> e.content), entries,
                                       i + 1, io)

\* extract_zip, lines 218-233, from entry i on: each entry is opened, its
\* file is created and its data copied; an entry that cannot be opened,
\* created or copied ends the extraction with an error
RECURSIVE extract_entries(_, _, _, _)
extract_entries(d, entries, i, io) ==
    IF i > Len(entries) THEN [dir |-> d, ok |-> TRUE]
    ELSE LET e == entries[i]
         IN  IF ~e.header_ok THEN [dir |-> d, ok |-> FALSE]
             ELSE IF ends_with(e.name, <<"/">>)
             THEN IF io.at = i THEN [dir |-> d, ok |-> FALSE]
                  ELSE extract_entries(d, entries, i + 1, io)
             ELSE IF io.at = i /\ ~io.copy THEN [dir |-> d, ok |-> FALSE]
             ELSE IF ~e.data_ok \/ io.at = i
             THEN [dir |-> (e.name :> Text(<<>>)) @@ d, ok |-> FALSE]
             ELSE extract_entries((e.name :> e.content) @@ d, entries,
                                  i + 1, io)

\* extract_zip: File::open and ZipArchive::new, then the entries
extract_zip_io(d, z, io) ==
    IF z \notin DOMAIN d \/ d[z].type # "archive"
    THEN [dir |-> d, ok |-> FALSE]
    ELSE extract_entries(d, d[z].entries, 1, io)

\* extract_zip when the operating system reports no error
extract_zip(d, z) == extract_zip_io(d, z, NoFault)

Failed_tpc == [at |-> "failed", i |-> 0]

\* main, lines 137-146: the command builds the Transformer and calls
\* load_lookups, which reads the CSV files data_dir holds at that moment
LoadLookups ==
    /\ tpc.at = "idle"
    /\ LET fs == LookupFiles(tdir)
       IN  /\ lookupScan' = [called |-> TRUE,
                             pending |-> Zips(tdir) \ extracted,
                             loaded |-> fs]
           /\ IF \A f \in fs : Readable(tdir[f])
              THEN /\ lookups' = load_from_directory(lookups, tdir, fs)
                   /\ tpc' = [at |-> "extract", i |-> 0]
              ELSE /\ lookups' = lookups
                   /\ tpc' = Failed_tpc
    /\ UNCHANGED <<tdir, extracted, started, processed, counts>>
    /\ UNCHANGED <<downloadVars, catalogVars, toolVars,
                   commandVars>>

\* extract_all_zips, lines 53-62: the next archive read_dir yields is
\* extracted into data_dir
ExtractZip(z) ==
    /\ tpc.at = "extract"
    /\ z \in Zips(tdir) \ extracted
    /\ LET r == extract_zip(tdir, z)
       IN  /\ tdir' = r.dir
           /\ IF r.ok
              THEN extracted' = extracted \cup {z} /\ UNCHANGED tpc
              ELSE tpc' = Failed_tpc /\ UNCHANGED extracted
    /\ UNCHANGED <<lookups, lookupScan, started, processed, counts>>
    /\ UNCHANGED <<downloadVars, catalogVars, toolVars,
                   commandVars>>

\* extract_all_zips returns and process_estabelecimentos begins
ExtractDone ==
    /\ tpc.at = "extract"
    /\ Zips(tdir) \subseteq extracted
    /\ tpc' = [at |-> Stages[1], i |-> 0]
    /\ started' = Append(started, Stages[1])
    /\ UNCHANGED <<tdir, lookups, extracted, lookupScan, processed, counts>>
    /\ UNCHANGED <<downloadVars, catalogVars, toolVars,
                   commandVars>>

\* the number of times the file f has been processed
Count(f) == IF f \in DOMAIN processed THEN processed[f] ELSE 0

\* the row counters of a fact dataset: the rows read from its CSV files, the
\* rows written to the output and the rows rejected
Counters(stage) ==
    IF stage \in DOMAIN counts THEN counts[stage]
    ELSE [read |-> 0, written |-> 0, rejected |-> 0]

\* process_estabelecimentos_file, process_empresas_file, process_socios_file
\* and the body of process_simples: the rows of the file are loaded and
\* their number is logged; no row is written and none is rejected
process_file(c, file) == [c EXCEPT !.read = @ + Len(file.rows)]

\* the position after iteration tpc.i of stage tpc.at
Advance ==
    IF tpc.i + 1 < Iterations(tpc.at)
    THEN /\ tpc' = [tpc EXCEPT !.i = @ + 1]
         /\ UNCHANGED started
    ELSE LET k == CHOOSE j \in DOMAIN Stages : Stages[j] = tpc.at
         IN  IF k < Len(Stages)
             THEN /\ tpc' = [at |-> Stages[k + 1], i |-> 0]
                  /\ started' = Append(started, Stages[k + 1])
             ELSE /\ tpc' = [at |-> "done", i |-> 0]
                  /\ UNCHANGED started

\* one iteration of process_estabelecimentos, process_empresas or
\* process_socios, or the body of process_simples: the file the pattern
\* finds, if any, is read
Process ==
    /\ tpc.at \in Range(Stages)
    /\ \E csv_path \in find_csv_by_pattern(tdir, Pattern(tpc.at, tpc.i)) :
          IF csv_path = NoPath
          THEN Advance /\ UNCHANGED <<processed, counts>>
          ELSE IF Readable(tdir[csv_path])
          THEN /\ processed' = (csv_path :> (Count(csv_path) + 1))
                                   @@ processed
               /\ counts' = (tpc.at :> process_file(Counters(tpc.at),
                                                    tdir[csv_path]))
                                @@ counts
               /\ Advance
          ELSE /\ tpc' = Failed_tpc
               /\ UNCHANGED <<started, processed, counts>>
    /\ UNCHANGED <<tdir, lookups, extracted, lookupScan>>
    /\ UNCHANGED <<downloadVars, catalogVars, toolVars,
                   commandVars>>

\* every archive of zs extracted into d
RECURSIVE ExtractAll(_, _)
ExtractAll(d, zs) ==
    IF zs = {} THEN d
    ELSE LET z == CHOOSE x \in zs : TRUE
         IN  ExtractAll(extract_zip(d, z).dir, zs \ {z})

\* data_dir when the command starts: the archives as downloaded, the same
\* with one archive damaged, or the same with the files of an earlier
\* extraction
TransformDirs ==
    {Downloaded, ExtractAll(Downloaded, DOMAIN Downloaded)}
    \cup {Damaged(Downloaded, z) : z \in DOMAIN Downloaded}

InitTransform ==
    /\ now = [year |-> 2025, month |-> 11]
    /\ dir = <<>>
    /\ config \in {c \in DefaultConfigs : c.skip_existing /\ ~c.restart}
    /\ urls = <<>>
    /\ listed = NotListed
    /\ phase = "idle"
    /\ runsLeft = 0
    /\ prev = "none"
    /\ queue = <<>>
    /\ xfer = <<>>
    /\ results = <<>>
    /\ ret = NoRet
    /\ honest = TRUE
    /\ scope = 0
    /\ tdir \in TransformDirs
    /\ tpc = [at |-> "idle", i |-> 0]
    /\ lookups = NewLookups
    /\ extracted = {}
    /\ lookupScan = NotScanned
    /\ started = <<>>
    /\ processed = <<>>
    /\ counts = NoCounts
    /\ CommandsIdle
    /\ ToolsIdle

NextTransform ==
    \/ LoadLookups
    \/ \E z \in DOMAIN Downloaded : ExtractZip(z)
    \/ ExtractDone
    \/ Process

SpecTransform == InitTransform /\ [][NextTransform]_vars

(***************************************************************************)
(* Company::clean_name                                                     *)
(***************************************************************************)
\* CPF_REGEX, (\D)(\d{3})(\d{5})(\d{3})$: the lengths of the groups of digits
CPF_GROUPS == <<3, 5, 3>>

CpfLen == CPF_GROUPS[1] + CPF_GROUPS[2] + CPF_GROUPS[3]

\* the "***" of the replacement
MASK == <<"*", "*", "*">>

\* CPF_REGEX matches s: it can only match the last character that is no
\* digit followed by the digits that end the string
cpf_match(s) ==
    LET n == Len(s)
    IN  /\ n >= CpfLen + 1
        /\ s[n - CpfLen] \notin Digits
        /\ \A i \in (n - CpfLen + 1)..n : s[i] \in Digits

\* capture group g (1..4) of the match
cpf_group(s, g) ==
    LET n == Len(s)
        from2 == n - CpfLen + 1
        from3 == from2 + CPF_GROUPS[1]
        from4 == from3 + CPF_GROUPS[2]
    IN  CASE g = 1 -> SubSeq(s, n - CpfLen, n - CpfLen)
          [] g = 2 -> SubSeq(s, from2, from3 - 1)
          [] g = 3 -> SubSeq(s, from3, from4 - 1)
          [] g = 4 -> SubSeq(s, from4, n)

\* Regex::replace with the replacement r built from the groups
cpf_replace(s, r) ==
    IF cpf_match(s) THEN SubSeq(s, 1, Len(s) - CpfLen - 1) \o r ELSE s

\* a clean_name that would not replace anything
clean_name_keep(s) == trim(s)

\* clean_name, line 85: CPF_REGEX.replace(name, "$1***$3***").trim()
clean_name(s) ==
    trim(cpf_replace(s, cpf_group(s, 1) \o MASK \o cpf_group(s, 3) \o MASK))

\* longest head of a name of the model, in characters
MaxHead == 2

\* the name of the test of clean_name, its head and its digits
JOAO_SILVA ==
    <<"J", "O", "A", "O", " ", "S", "I", "L", "V", "A", " ">>

CPF_DIGITS ==
    <<"1", "2", "3", "4", "5", "6", "7", "8", "9", "0", "1">>

RECURSIVE Strings(_, _)
Strings(alphabet, n) ==
    IF n = 0 THEN {<<>>}
    ELSE LET shorter == Strings(alphabet, n - 1)
         IN  shorter \cup {Append(s, c) : s \in shorter, c \in alphabet}

\* the names of the model: a head, then eleven digits, ten digits or none,
\* then a space or nothing
Heads ==
    Strings({"J", " ", "7"}, MaxHead)
    \cup {JOAO_SILVA, CPF_DIGITS \o <<" ">>}

Names ==
    {h \o d \o t : h \in Heads, d \in {CPF_DIGITS, Tail(CPF_DIGITS), <<>>},
                   t \in {<<>>, <<" ">>}}

\* number of times clean_name is applied in a row
MaxApplications == 2

\* clean_name is called on the name, then on its own output
Clean ==
    /\ Len(cleaned) < MaxApplications
    /\ cleaned' = Append(cleaned,
           clean_name(IF cleaned = <<>> THEN name ELSE cleaned[Len(cleaned)]))
    /\ UNCHANGED <<name, checked, resolved>>
    /\ UNCHANGED <<downloadVars, catalogVars, transformVars, commandVars>>

InitClean ==
    /\ now = [year |-> 2025, month |-> 11]
    /\ dir = <<>>
    /\ config \in {c \in DefaultConfigs : c.skip_existing /\ ~c.restart}
    /\ urls = <<>>
    /\ listed = NotListed
    /\ phase = "idle"
    /\ runsLeft = 0
    /\ prev = "none"
    /\ queue = <<>>
    /\ xfer = <<>>
    /\ results = <<>>
    /\ ret = NoRet
    /\ honest = TRUE
    /\ scope = 0
    /\ TransformIdle
    /\ CommandsIdle
    /\ checked = NoCheck
    /\ resolved = NoAnswer
    /\ name \in Names
    /\ cleaned = <<>>

NextClean == Clean

SpecClean == InitClean /\ [][NextClean]_vars

(***************************************************************************)
(* The code resolvers                                                      *)
(***************************************************************************)
\* Company::parse_situacao_cadastral
parse_situacao_cadastral(code) ==
    CASE code = 1 -> "NULA"
      [] code = 2 -> "ATIVA"
      [] code = 3 -> "SUSPENSA"
      [] code = 4 -> "INAPTA"
      [] code = 8 -> "BAIXADA"
      [] OTHER -> None

\* Company::parse_matriz_filial
parse_matriz_filial(code) ==
    CASE code = 1 -> "MATRIZ"
      [] code = 2 -> "FILIAL"
      [] OTHER -> None

\* Partner::parse_identificador_socio
parse_identificador_socio(code) ==
    CASE code = 1 -> "PESSOA JURÍDICA"
      [] code = 2 -> "PESSOA FÍSICA"
      [] code = 3 -> "ESTRANGEIRO"
      [] OTHER -> None

\* Partner::parse_faixa_etaria
parse_faixa_etaria(code) ==
    CASE code = 1 -> "0 a 12 anos"
      [] code = 2 -> "13 a 20 anos"
      [] code = 3 -> "21 a 30 anos"
      [] code = 4 -> "31 a 40 anos"
      [] code = 5 -> "41 a 50 anos"
      [] code = 6 -> "51 a 60 anos"
      [] code = 7 -> "61 a 70 anos"
      [] code = 8 -> "71 a 80 anos"
      [] code = 9 -> "Maiores de 80 anos"
      [] OTHER -> None

\* Lookups::get_country .. get_motive
get_country(lk, code) == get(lk.countries, code)

get_city(lk, code) == get(lk.cities, code)

get_legal_nature(lk, code) == get(lk.legal_natures, code)

get_qualification(lk, code) == get(lk.qualifications, code)

get_cnae(lk, code) == get(lk.cnaes, code)

get_motive(lk, code) == get(lk.motives, code)

\* the map each getter reads
GetterTable ==
    [get_country |-> "countries", get_city |-> "cities",
     get_legal_nature |-> "legal_natures",
     get_qualification |-> "qualifications", get_cnae |-> "cnaes",
     get_motive |-> "motives"]

Parsers == {"parse_situacao_cadastral", "parse_matriz_filial",
            "parse_identificador_socio", "parse_faixa_etaria"}

Resolvers == Parsers \cup DOMAIN GetterTable

\* the answer of resolver r for a code
Answer(r, lk, code) ==
    CASE r = "parse_situacao_cadastral" -> parse_situacao_cadastral(code)
      [] r = "parse_matriz_filial" -> parse_matriz_filial(code)
      [] r = "parse_identificador_socio" -> parse_identificador_socio(code)
      [] r = "parse_faixa_etaria" -> parse_faixa_etaria(code)
      [] r = "get_country" -> get_country(lk, code)
      [] r = "get_city" -> get_city(lk, code)
      [] r = "get_legal_nature" -> get_legal_nature(lk, code)
      [] r = "get_qualification" -> get_qualification(lk, code)
      [] r = "get_cnae" -> get_cnae(lk, code)
      [] r = "get_motive" -> get_motive(lk, code)

\* largest code of the range the resolvers are called with; the code 99 of
\* the tests is called too
MaxCode == 9

Codes == 0..MaxCode \cup {99}

\* a resolver is called, before or after the lookups were loaded
Resolve(r, code) ==
    /\ resolved' = [resolver |-> r, code |-> code,
                    label |-> Answer(r, lookups, code),
                    loaded |-> lookupScan.called]
    /\ UNCHANGED <<checked, name, cleaned>>
    /\ UNCHANGED <<downloadVars, catalogVars, transformVars, commandVars>>

\* lookup files with a code given twice, a row without a name and a map
\* with a single row
VariedLookups ==
    (CsvName(K_PAIS) :>
        Text(<<LookupRow(1, "PAIS-1"), LookupRow(2, "PAIS-2"),
               [code |-> <<3>>, name |-> <<>>], LookupRow(1, "PAIS-1B")>>))
    @@ (CsvName(K_MUNIC) :> Text(<<LookupRow(2, "MUNICIPIO-2")>>))

\* data_dir when the lookups are loaded: no file, the files of the extracted
\* archives, or the varied files
ResolveDirs ==
    {<<>>, ExtractAll(Downloaded, DOMAIN Downloaded), VariedLookups}

InitResolve ==
    /\ now = [year |-> 2025, month |-> 11]
    /\ dir = <<>>
    /\ config \in {c \in DefaultConfigs : c.skip_existing /\ ~c.restart}
    /\ urls = <<>>
    /\ listed = NotListed
    /\ phase = "idle"
    /\ runsLeft = 0
    /\ prev = "none"
    /\ queue = <<>>
    /\ xfer = <<>>
    /\ results = <<>>
    /\ ret = NoRet
    /\ honest = TRUE
    /\ scope = 0
    /\ tdir \in ResolveDirs
    /\ tpc = [at |-> "idle", i |-> 0]
    /\ lookups = NewLookups
    /\ extracted = {}
    /\ lookupScan = NotScanned
    /\ started = <<>>
    /\ processed = <<>>
    /\ counts = NoCounts
    /\ CommandsIdle
    /\ ToolsIdle

NextResolve ==
    \/ LoadLookups
    \/ \E r \in Resolvers, code \in Codes : Resolve(r, code)

SpecResolve == InitResolve /\ [][NextResolve]_vars

(***************************************************************************)
(* check_zip_integrity                                                     *)
(***************************************************************************)
\* largest number of entries of an archive that is checked
MaxEntries == 2

RECURSIVE EntryLists(_)
EntryLists(n) ==
    IF n = 0 THEN {<<>>}
    ELSE LET shorter == EntryLists(n - 1)
         IN  shorter \cup
             {Append(es, [name |-> CsvName(K_SIMPLES \o <<DigitChars[n]>>),
                          header_ok |-> h, data_ok |-> c,
                          content |-> Text(FactRows)]) :
                  es \in {x \in shorter : Len(x) = n - 1},
                  h \in BOOLEAN, c \in BOOLEAN}

\* what a file named .zip can hold: bytes that are no archive, or an archive
\* whose entries have a sound or damaged header and sound or damaged data
CheckedFiles == {Text(<<>>)} \cup {Archive(es) : es \in EntryLists(MaxEntries)}

\* check_zip_integrity: the file is opened, the archive is read and each
\* entry is opened with by_index, which reads the header of the entry and
\* none of its data
check_zip_integrity(d, path) ==
    IF path \notin DOMAIN d THEN "Err"
    ELSE IF d[path].type # "archive" THEN "Err"
    ELSE IF \E i \in DOMAIN d[path].entries : ~d[path].entries[i].header_ok
    THEN "Err"
    ELSE "Ok(true)"

\* the check command calls check_zip_integrity for a file of the directory
CheckFile(path) ==
    /\ path \in Zips(tdir)
    /\ checked' = [file |-> path, result |-> check_zip_integrity(tdir, path)]
    /\ UNCHANGED <<resolved, name, cleaned>>
    /\ UNCHANGED <<downloadVars, catalogVars, transformVars, commandVars>>

CheckNames == {ZipName(P_Simples), ZipName(P_Cnaes)}

InitCheck ==
    /\ now = [year |-> 2025, month |-> 11]
    /\ dir = <<>>
    /\ config \in {c \in DefaultConfigs : c.skip_existing /\ ~c.restart}
    /\ urls = <<>>
    /\ listed = NotListed
    /\ phase = "idle"
    /\ runsLeft = 0
    /\ prev = "none"
    /\ queue = <<>>
    /\ xfer = <<>>
    /\ results = <<>>
    /\ ret = NoRet
    /\ honest = TRUE
    /\ scope = 0
    /\ tdir \in [CheckNames -> CheckedFiles]
    /\ tpc = [at |-> "idle", i |-> 0]
    /\ lookups = NewLookups
    /\ extracted = {}
    /\ lookupScan = NotScanned
    /\ started = <<>>
    /\ processed = <<>>
    /\ counts = NoCounts
    /\ CommandsIdle
    /\ ToolsIdle

NextCheck == \E path \in CheckNames : CheckFile(path)

SpecCheck == InitCheck /\ [][NextCheck]_vars

(***************************************************************************)
(* The check command                                                       *)
(***************************************************************************)
\* a directory argument that names no existing directory
MISSING_DIR == <<"m", "i", "s", "s", "i", "n", "g">>

CheckExited == [NoCmd EXCEPT !.at = "exit 1"]

\* main, lines 203-210: the command ends with exit code 1 when its directory
\* does not exist; otherwise it starts to walk the directory with both
\* counters at zero
CheckStart(directory, delete) ==
    /\ cmd.at = "idle"
    /\ IF directory # DATA_DIR
       THEN /\ cmd' = CheckExited
            /\ UNCHANGED tdir0
       ELSE /\ cmd' = [at |-> "walk", delete |-> delete,
                       pending |-> Zips(tdir), checked |-> 0, errors |-> 0,
                       verdicts |-> <<>>]
            /\ tdir0' = tdir
    /\ UNCHANGED <<cli, extractions>>
    /\ UNCHANGED <<downloadVars, catalogVars, transformVars, toolVars>>

\* std::fs::remove_file(path)
remove_file(d, path) == [f \in DOMAIN d \ {path} |-> d[f]]

CheckEntry_any(path, removed) ==
    /\ cmd.at = "walk"
    /\ path \in cmd.pending
    /\ LET verdict == check_zip_integrity(tdir, path)
       IN  /\ checked' = [file |-> path, result |-> verdict]
           /\ cmd' = [cmd EXCEPT
                        !.pending = @ \ {path},
                        !.checked = @ + 1,
                        !.errors = IF verdict = "Err" THEN @ + 1 ELSE @,
                        !.verdicts = Append(@, checked')]
           /\ tdir' = IF cmd.delete /\ removed
                      THEN remove_file(tdir, path) ELSE tdir
    /\ UNCHANGED <<tpc, lookups, extracted, lookupScan, started, processed,
                   counts>>
    /\ UNCHANGED <<resolved, name, cleaned, cli, tdir0, extractions>>
    /\ UNCHANGED <<downloadVars, catalogVars>>

\* main, lines 212-236, one iteration of the loop over the .zip files
\* WalkDir yields, in the order of the file system: the file is counted and
\* verified; when it fails, the error is counted and, with --delete, the
\* file is removed, which the file system can refuse (removed is FALSE)
CheckEntry(path, removed) ==
    /\ cmd.at = "walk"
    /\ path \in cmd.pending
    /\ LET verdict == check_zip_integrity(tdir, path)
       IN  /\ checked' = [file |-> path, result |-> verdict]
           /\ cmd' = [cmd EXCEPT
                        !.pending = @ \ {path},
                        !.checked = @ + 1,
                        !.errors = IF verdict = "Err" THEN @ + 1 ELSE @,
                        !.verdicts = Append(@, checked')]
           /\ tdir' = IF verdict = "Err" /\ cmd.delete /\ removed
                      THEN remove_file(tdir, path) ELSE tdir
    /\ UNCHANGED <<tpc, lookups, extracted, lookupScan, started, processed,
                   counts>>
    /\ UNCHANGED <<resolved, name, cleaned, cli, tdir0, extractions>>
    /\ UNCHANGED <<downloadVars, catalogVars>>

\* main, line 238: the walk is over, the summary is printed
CheckEnd ==
    /\ cmd.at = "walk"
    /\ cmd.pending = {}
    /\ cmd' = [cmd EXCEPT !.at = "done"]
    /\ UNCHANGED <<cli, tdir0, extractions>>
    /\ UNCHANGED <<downloadVars, catalogVars, transformVars, toolVars>>

\* the directories the command is run on: two files named .zip with any
\* content, and a CSV file
CheckDirs ==
    {d @@ (CsvName(K_PAIS) :> Text(<<LookupRow(1, "PAIS-1")>>)) :
        d \in [CheckNames -> CheckedFiles]}

InitCheckCommand ==
    /\ now = [year |-> 2025, month |-> 11]
    /\ dir = <<>>
    /\ config \in {c \in DefaultConfigs : c.skip_existing /\ ~c.restart}
    /\ urls = <<>>
    /\ listed = NotListed
    /\ phase = "idle"
    /\ runsLeft = 0
    /\ prev = "none"
    /\ queue = <<>>
    /\ xfer = <<>>
    /\ results = <<>>
    /\ ret = NoRet
    /\ honest = TRUE
    /\ scope = 0
    /\ tdir \in CheckDirs
    /\ tpc = [at |-> "idle", i |-> 0]
    /\ lookups = NewLookups
    /\ extracted = {}
    /\ lookupScan = NotScanned
    /\ started = <<>>
    /\ processed = <<>>
    /\ counts = NoCounts
    /\ CommandsIdle
    /\ ToolsIdle

NextCheckCommand ==
    \/ \E directory \in {DATA_DIR, MISSING_DIR}, delete \in BOOLEAN :
          CheckStart(directory, delete)
    \/ \E path \in CheckNames, removed \in BOOLEAN : CheckEntry(path, removed)
    \/ CheckEnd

SpecCheckCommand == InitCheckCommand /\ [][NextCheckCommand]_vars

(***************************************************************************)
(* extract_zip, called again after a failure                               *)
(***************************************************************************)
\* largest number of calls of extract_zip on the archive
MaxExtractions == 2

EXTRACTED_ZIP == ZipName(P_Simples)

\* what an earlier extraction of an older archive left in the directory
StaleRows == <<[cnpj |-> 0]>>

EntryNames == {CsvName(K_SIMPLES \o <<DigitChars[n]>>) : n \in 1..MaxEntries}

\* the directories extract_zip is called on: the file named .zip with any
\* content, and files of an earlier extraction under some of the names
ExtractDirs ==
    {(EXTRACTED_ZIP :> file) @@ [f \in stale |-> Text(StaleRows)] :
        file \in CheckedFiles, stale \in SUBSET EntryNames}

\* transformer.extract_zip(zip_path, data_dir), with an input/output error
\* or none
Extract(io) ==
    /\ Len(extractions) < MaxExtractions
    /\ LET r == extract_zip_io(tdir, EXTRACTED_ZIP, io)
       IN  /\ tdir' = r.dir
           /\ extractions' = Append(extractions, [io |-> io, ok |-> r.ok])
    /\ UNCHANGED <<tpc, lookups, extracted, lookupScan, started, processed,
                   counts>>
    /\ UNCHANGED <<cli, cmd, tdir0>>
    /\ UNCHANGED <<downloadVars, catalogVars, toolVars>>

InitExtract ==
    /\ now = [year |-> 2025, month |-> 11]
    /\ dir = <<>>
    /\ config \in {c \in DefaultConfigs : c.skip_existing /\ ~c.restart}
    /\ urls = <<>>
    /\ listed = NotListed
    /\ phase = "idle"
    /\ runsLeft = 0
    /\ prev = "none"
    /\ queue = <<>>
    /\ xfer = <<>>
    /\ results = <<>>
    /\ ret = NoRet
    /\ honest = TRUE
    /\ scope = 0
    /\ tdir \in ExtractDirs
    /\ tpc = [at |-> "idle", i |-> 0]
    /\ lookups = NewLookups
    /\ extracted = {}
    /\ lookupScan = NotScanned
    /\ started = <<>>
    /\ processed = <<>>
    /\ counts = NoCounts
    /\ cli = NoCli
    /\ cmd = NoCmd
    /\ tdir0 = tdir
    /\ extractions = <<>>
    /\ ToolsIdle

NextExtract == \E io \in Faults(MaxEntries) : Extract(io)

SpecExtract == InitExtract /\ [][NextExtract]_vars

(***************************************************************************)
(* The download command                                                    *)
(***************************************************************************)
\* eprintln!("Error: parallel downloads must be at least 1"), word by word
PARALLEL_DIAGNOSTIC ==
    <<"Error:", "parallel", "downloads", "must", "be", "at", "least", "1">>

\* main, lines 114-133: with --parallel 0 the command writes its diagnostic
\* and exits with code 1; otherwise it builds the DownloadConfig from its
\* flags and the defaults and calls download()
DownloadCommand(parallel, flags) ==
    /\ cli.at = "idle"
    /\ IF parallel = 0
       THEN /\ cli' = [parallel |-> parallel, at |-> "exited", exit |-> <<1>>,
                       stderr |-> PARALLEL_DIAGNOSTIC]
            /\ UNCHANGED <<config, runsLeft>>
       ELSE /\ cli' = [cli EXCEPT !.parallel = parallel, !.at = "download"]
            /\ config' = [flags EXCEPT !.max_parallel = parallel]
            /\ runsLeft' = 1
    /\ UNCHANGED <<dir, phase, prev, queue, xfer, results, ret, honest>>
    /\ UNCHANGED <<cmd, tdir0, extractions>>
    /\ UNCHANGED <<catalogVars, transformVars, toolVars>>

\* main, lines 133 and 242: `downloader.download().await?` hands an error to
\* main's caller, which prints it and ends the process with code 1; Ok(())
\* ends it with code 0
CommandExit ==
    /\ cli.at = "download"
    /\ phase = "returned"
    /\ cli' = [cli EXCEPT
                 !.at = "exited",
                 !.exit = IF ret.result = "Ok" THEN <<0>> ELSE <<1>>,
                 !.stderr = IF ret.result = "Ok" THEN <<>>
                            ELSE <<"Error:", ret.result>>]
    /\ UNCHANGED <<cmd, tdir0, extractions>>
    /\ UNCHANGED <<downloadVars, catalogVars, transformVars, toolVars>>

InitCommand ==
    /\ now = [year |-> 2025, month |-> 11]
    /\ dir = <<>>
    /\ config \in {c \in DefaultConfigs : ~c.skip_existing /\ ~c.restart}
    /\ urls = <<>>
    /\ listed = NotListed
    /\ phase = "idle"
    /\ runsLeft = 0
    /\ prev = "none"
    /\ queue = <<>>
    /\ xfer = <<>>
    /\ results = <<>>
    /\ ret = NoRet
    /\ honest = TRUE
    /\ scope = 1
    /\ TransformIdle
    /\ CommandsIdle
    /\ ToolsIdle

NextCommand ==
    \/ \E parallel \in 0..MaxParallel, flags \in DefaultConfigs :
          DownloadCommand(parallel, flags)
    \/ Next
    \/ CommandExit

SpecCommand == InitCommand /\ [][NextCommand]_vars

(***************************************************************************)
(* Properties                                                              *)
(***************************************************************************)
FileNames(us) == {filename_from_url(us[i]) : i \in DOMAIN us}

\* C1: for every period the catalog file_urls returns has exactly 37 entries
\* and the file names filename_from_url gives for them are pairwise distinct.
C1_CatalogSize ==
    urls # <<>> =>
        /\ Len(urls) = 37
        /\ \A i, j \in DOMAIN urls :
               i # j => filename_from_url(urls[i]) # filename_from_url(urls[j])

\* the catalog of a month whose number is padded to two digits was produced
C1_Witness ==
    /\ urls # <<>>
    /\ now.month < 10
    /\ urls[Len(urls)][Len(BASE_URL) + 1] = "2025-0" \o ToString(now.month)

\* the position of url in the catalog us (0 when it is no entry)
IndexIn(us, url) ==
    IF \E i \in DOMAIN us : us[i] = url
    THEN CHOOSE i \in DOMAIN us : us[i] = url
    ELSE 0

\* C2: with skip_existing, list_urls returns exactly the catalog entries whose
\* file name did not exist in data_dir (a file of zero bytes exists), in
\* catalog order; without it, all 37 entries whatever the directory holds.
C2_ListPending ==
    listed.called =>
        LET cat == file_urls(now)
            out == listed.urls
        IN  IF config.skip_existing
            THEN /\ \A i \in DOMAIN out :
                        /\ IndexIn(cat, out[i]) > 0
                        /\ filename_from_url(out[i]) \notin listed.at
                 /\ \A i \in DOMAIN cat :
                        filename_from_url(cat[i]) \notin listed.at
                            => IndexIn(out, cat[i]) > 0
                 /\ \A i, j \in DOMAIN out :
                        i < j => IndexIn(cat, out[i]) < IndexIn(cat, out[j])
                 /\ Len(out) = 37 - Cardinality(FileNames(cat) \cap listed.at)
            ELSE out = cat /\ Len(out) = 37

\* list_urls was called with skip_existing while Estabelecimentos0.zip
\* existed with zero bytes, and returned the 36 other entries
C2_Witness ==
    /\ listed.called
    /\ config.skip_existing
    /\ listed.at = {"Estabelecimentos0.zip"}
    /\ dir["Estabelecimentos0.zip"] = <<>>
    /\ Len(listed.urls) = 36

\* the chunked transfers: download_chunked was entered
Chunked == {f \in DOMAIN xfer : xfer[f].path = "chunked"}

\* C3: without restart, the chunked download of an entry that has a partial
\* local file of len bytes (0 < len < content-length) keeps those bytes and
\* sends its first range request at offset len.
C3_ResumesAtLength ==
    \A f \in Chunked :
        (~config.restart /\ 0 < xfer[f].preLen
            /\ xfer[f].preLen < xfer[f].total_size)
        => /\ xfer[f].first = xfer[f].preLen
           /\ Len(dir[f]) >= xfer[f].preLen

\* C4: a run interrupted after N bytes of a file were written, followed by a
\* rerun with the same configuration, leaves the files an uninterrupted run
\* produces (the origin's bytes), the origin serving the same bytes in both.
C4_ResumeIdempotent ==
    (phase = "returned" /\ ret.result = "Ok" /\ prev = "killed" /\ honest)
        => \A i \in DOMAIN Selected :
               LET f == filename_from_url(Selected[i])
               IN  Exists(dir, f) /\ dir[f] = Origin

\* C5: when the transfer of a file returns success, the local file has the
\* content-length HEAD advertised; bytes that do not add up to it end the
\* transfer with an error.
C5_LengthMatches ==
    \A f \in Chunked :
        xfer[f].result = "Ok" => Len(dir[f]) = xfer[f].total_size

ClaimedDelay(k) == IF k <= 5 THEN <<2, 4, 8, 16, 32>>[k] ELSE 32

RECURSIVE ClaimedSleep(_)
ClaimedSleep(k) == IF k = 0 THEN 0 ELSE ClaimedSleep(k - 1) + ClaimedDelay(k)

\* C7: the sleep before the k-th retry of a window is 2^min(k,5) seconds; a
\* window that fails k times and then succeeds takes k+1 requests and the sum
\* of those sleeps; two failures and a success: 3 requests, at least 2+4 s.
C7_Backoff ==
    \A f \in Chunked :
        LET t == xfer[f]
        IN  /\ t.pc = "sleep" =>
                   t.attempts = t.retries /\ t.slept = ClaimedSleep(t.retries)
            /\ (t.pc = "chunk" \/ t.result = "Ok") =>
                   t.attempts = t.retries + 1
                       /\ t.slept = ClaimedSleep(t.retries)
            /\ (t.result = "Ok" /\ t.retries = 2) =>
                   t.attempts = 3 /\ t.slept >= 2 + 4

\* the last window succeeded at its third request, after sleeping 2 and 4 s
C7_Witness ==
    \E f \in Chunked :
        /\ xfer[f].result = "Ok"
        /\ xfer[f].retries = 2
        /\ xfer[f].attempts = 3
        /\ xfer[f].slept = 6

\* C8: a response with status 400, 401, 403, 404 or 410 is permanent: the
\* request that received it is not retried and no backoff sleep follows it,
\* the transfer is aborted.
C8_PermanentNotRetried ==
    \A f \in DOMAIN xfer :
        xfer[f].last \in PermanentStatuses => xfer[f].pc = "done"

\* C9: the whole-file GET is retried on transient failures, up to max_retries
\* requests, before the transfer is reported as failed.
C9_SimpleRetried ==
    \A f \in DOMAIN xfer :
        (xfer[f].path = "simple" /\ xfer[f].pc = "done"
            /\ xfer[f].result # "Ok"
            /\ xfer[f].last \notin PermanentStatuses)
        => xfer[f].attempts = config.max_retries

\* C10: at every moment of download() at most max_parallel transfers are in
\* flight.
C10_AtMostMaxParallel ==
    Cardinality(InFlight(xfer)) <= config.max_parallel

\* max_parallel transfers are in flight while an entry waits in the stream
C10_Witness ==
    /\ queue # <<>>
    /\ Cardinality(InFlight(xfer)) = config.max_parallel
    /\ \A f \in InFlight(xfer) : xfer[f].pc # "head"

\* the results collected for file f
ResultsOf(f) == {i \in DOMAIN results : results[i].file = f}

\* C11: when download() returns after running transfers, every selected file
\* has been attempted and has run to its own result, one result each, whether
\* or not another transfer failed; and it returns Ok only if every transfer
\* succeeded.
C11_AllRunToCompletion ==
    (phase = "returned" /\ results # <<>>) =>
        /\ \A i \in DOMAIN Selected :
              LET f == filename_from_url(Selected[i])
              IN  /\ f \in DOMAIN xfer
                  /\ xfer[f].pc = "done"
                  /\ xfer[f].result # "none"
                  /\ Cardinality(ResultsOf(f)) = 1
        /\ ret.result = "Ok" =>
              \A i \in DOMAIN results : results[i].result = "Ok"
        /\ ret.result # "Ok" =>
              \E i \in DOMAIN results :
                  /\ results[i].result = ret.result
                  /\ results[i].file = ret.file

\* download() returned an error although a transfer that ended after the
\* failed one succeeded
C11_Witness ==
    /\ phase = "returned"
    /\ Len(results) = MaxFiles
    /\ results[1].result # "Ok"
    /\ results[Len(results)].result = "Ok"
    /\ ret.result # "Ok"

\* the failed transfers, and the one that comes first in catalog order
Failed == {i \in DOMAIN Selected :
              LET f == filename_from_url(Selected[i])
              IN  f \in DOMAIN xfer /\ xfer[f].result \notin {"none", "Ok"}}

FirstFailed ==
    filename_from_url(Selected[CHOOSE i \in Failed : \A j \in Failed : i <= j])

\* C12: when several transfers fail in one call of download(), the error it
\* returns is that of the failed file that comes first in catalog order.
C12_ErrorInCatalogOrder ==
    (phase = "returned" /\ Cardinality(Failed) >= 2) => ret.file = FirstFailed

\* the order of the fact datasets the specification states
StatedOrder == <<"empresas", "estabelecimentos", "socios", "simples">>

\* C13: the transformer processes the fact datasets in the order companies,
\* establishments, partners, simples: the datasets whose processing has begun
\* are an initial part of that order.
C13_DatasetOrder ==
    /\ Len(started) <= Len(StatedOrder)
    /\ started = SubSeq(StatedOrder, 1, Len(started))

\* C14: the stages run in the order extract, lookups, facts: when the lookup
\* loader reads data_dir every lookup archive has been extracted, and when
\* the first fact dataset is processed each of the six maps is populated.
C14_ExtractLookupsFacts ==
    /\ lookupScan.called =>
          lookupScan.pending \cap DOMAIN LookupArchives = {}
    /\ started # <<>> =>
          \A t \in DOMAIN lookups : DOMAIN lookups[t] # {}

\* the stages whose processing has ended
Finished(stage) ==
    LET k == CHOOSE j \in DOMAIN Stages : Stages[j] = stage
    IN  \/ tpc.at = "done"
        \/ \E j \in DOMAIN Stages : j > k /\ tpc.at = Stages[j]

\* the extracted CSV file of partition i of a dataset: the file the pattern
\* of iteration i names
PartitionFiles(stage, i) ==
    LET p == Pattern(stage, i)
        suffix == SubSeq(p, Len(DATA_DIR) + 3, Len(p))
    IN  {f \in DOMAIN tdir : ends_with(f, suffix)}

\* C15: each fact dataset processes every extracted partition CSV exactly
\* once: no file is processed twice, and when a dataset has been processed
\* each of its partition files has been processed.
C15_EachPartitionOnce ==
    /\ \A f \in DOMAIN processed : processed[f] <= 1
    /\ \A k \in DOMAIN Stages :
          Finished(Stages[k]) =>
              \A i \in 0..(Iterations(Stages[k]) - 1) :
                  \A f \in PartitionFiles(Stages[k], i) : Count(f) = 1

\* C16: clean_name is idempotent: applied to its own output it returns that
\* output again.
C16_Idempotent ==
    Len(cleaned) >= 2 => cleaned[2] = cleaned[1]

\* C17: the name "JOAO SILVA 12345678901" is cleaned to exactly
\* "JOAO SILVA ***678***901***".
C17_MaskedName ==
    (name = JOAO_SILVA \o CPF_DIGITS /\ cleaned # <<>>) =>
        cleaned[1] = JOAO_SILVA \o MASK \o <<"6", "7", "8">> \o MASK
                         \o <<"9", "0", "1">> \o MASK

\* the last eleven characters of s, and what precedes them
LastRun(s) == SubSeq(s, Len(s) - CpfLen + 1, Len(s))

Before(s) == SubSeq(s, 1, Len(s) - CpfLen)

EndsInDigits(s) ==
    Len(s) >= CpfLen /\ \A i \in DOMAIN LastRun(s) : LastRun(s)[i] \in Digits

\* C18, for whatever precedes the digits: for every name whose last eleven
\* characters are digits, preceded by a character that is no digit, by a
\* digit or by nothing, the output contains "***" and does not contain the
\* eleven digits.
C18_AnyTrailingRun ==
    (EndsInDigits(name) /\ cleaned # <<>>) =>
        /\ contains(cleaned[1], MASK)
        /\ ~contains(cleaned[1], LastRun(name))

\* C18, for digits that follow a character that is no digit: for every name
\* that ends with such a character and eleven digits, the output contains
\* "***" and contains the eleven digits only if they also occur earlier in
\* the name.
C18_TrailingRunMasked ==
    (EndsInDigits(name) /\ Before(name) # <<>>
        /\ name[Len(name) - CpfLen] \notin Digits /\ cleaned # <<>>) =>
        /\ contains(cleaned[1], MASK)
        /\ contains(cleaned[1], LastRun(name)) =>
              contains(Before(name), LastRun(name))

C18_Witness ==
    /\ EndsInDigits(name)
    /\ Before(name) # <<>>
    /\ name[Len(name) - CpfLen] \notin Digits
    /\ cleaned # <<>>
    /\ ~contains(cleaned[1], LastRun(name))
    /\ ends_with(cleaned[1], MASK)

\* the labels the tests of the parsers expect, 99 being a code without label
ExpectedLabels ==
    [parse_situacao_cadastral |->
         (1 :> "NULA") @@ (2 :> "ATIVA") @@ (3 :> "SUSPENSA")
         @@ (4 :> "INAPTA") @@ (8 :> "BAIXADA") @@ (99 :> None),
     parse_matriz_filial |->
         (1 :> "MATRIZ") @@ (2 :> "FILIAL") @@ (3 :> None),
     parse_identificador_socio |->
         (1 :> "PESSOA JURÍDICA") @@ (2 :> "PESSOA FÍSICA")
         @@ (3 :> "ESTRANGEIRO") @@ (99 :> None),
     parse_faixa_etaria |->
         (1 :> "0 a 12 anos") @@ (5 :> "41 a 50 anos")
         @@ (9 :> "Maiores de 80 anos") @@ (99 :> None)]

\* the codes a parser has a label for
LabelledCodes ==
    [parse_situacao_cadastral |-> {1, 2, 3, 4, 8},
     parse_matriz_filial |-> {1, 2},
     parse_identificador_socio |-> {1, 2, 3},
     parse_faixa_etaria |-> 1..9]

\* the label the files read at load time hold for a code in the map t: the
\* name of the last row with that code and a name, none when there is no
\* such row
HeldAtLoad(t, code) ==
    LET fs == {f \in lookupScan.loaded : TableOf(f) = t}
    IN  IF fs = {} THEN None
        ELSE LET rows == tdir[CHOOSE f \in fs : TRUE].rows
                 hits == {i \in DOMAIN rows : /\ rows[i].code = <<code>>
                                              /\ rows[i].name # <<>>}
             IN  IF hits = {} THEN None
                 ELSE rows[CHOOSE i \in hits : \A j \in hits : j <= i].name[1]

\* C19: no resolver fabricates a label.  A parser returns the label of its
\* table for the code (status 2 is "ATIVA") and none for a code without one
\* (status 99); a getter of the lookups returns the label the loaded file of
\* its own map held for exactly that code, or none (none for every code
\* before the files are loaded).
C19_NoFabricatedLabel ==
    LET r == resolved.resolver
        code == resolved.code
    IN  /\ r \in Parsers =>
              /\ code \in DOMAIN ExpectedLabels[r] =>
                    resolved.label = ExpectedLabels[r][code]
              /\ resolved.label # None <=> code \in LabelledCodes[r]
        /\ r \in DOMAIN GetterTable =>
              resolved.label = IF resolved.loaded
                               THEN HeldAtLoad(GetterTable[r], code)
                               ELSE None

\* a getter answered with the label of the last of the two rows its file
\* holds for the code
C19_Witness ==
    /\ resolved.resolver = "get_country"
    /\ resolved.code = 1
    /\ resolved.label = "PAIS-1B"
    /\ resolved.loaded
    /\ lookups.cities # <<>>

\* the file is an archive whose entries all have a sound header and data
\* that decodes with the CRC the archive records
Intact(file) ==
    /\ file.type = "archive"
    /\ \A i \in DOMAIN file.entries :
          file.entries[i].header_ok /\ file.entries[i].data_ok

\* C20: check_zip_integrity returns ok exactly when the file opens as an
\* archive and every entry decodes with a matching CRC; every other file,
\* one that is no archive or one with damaged entry data, yields the error;
\* it never returns Ok(false).
C20_OkIffIntact ==
    checked.result # "none" =>
        /\ checked.result = "Ok(true)" <=> Intact(tdir[checked.file])
        /\ ~Intact(tdir[checked.file]) => checked.result = "Err"
        /\ checked.result # "Ok(false)"

\* C25: when the transform run has ended, every fact dataset has
\* read = written + rejected: each row read from its CSV files was written to
\* the output or counted as rejected, none was dropped
C25_ReadIsWrittenPlusRejected ==
    tpc.at = "done" =>
        \A stage \in Range(Stages) :
            Counters(stage).read
                = Counters(stage).written + Counters(stage).rejected

\* the archives of the directory the command began with that failed
\* verification
FailedArchives ==
    {f \in Zips(tdir0) : check_zip_integrity(tdir0, f) = "Err"}

VerdictOf(f) ==
    {cmd.verdicts[i].result :
        i \in {j \in DOMAIN cmd.verdicts : cmd.verdicts[j].file = f}}

\* C21: the check command removes an archive only if --delete was given and
\* the archive failed verification: no file that is still there was
\* modified, without --delete the directory is as it was, with --delete the
\* archives that verify are all in place, and when the command ends every
\* archive has been verified, the ones that follow a corrupt one included
C21_DeletesOnlyFailedOnDelete ==
    cmd.at \in {"walk", "done"} =>
        /\ DOMAIN tdir \subseteq DOMAIN tdir0
        /\ \A f \in DOMAIN tdir : tdir[f] = tdir0[f]
        /\ \A f \in DOMAIN tdir0 \ DOMAIN tdir :
              cmd.delete /\ f \in FailedArchives /\ VerdictOf(f) = {"Err"}
        /\ ~cmd.delete => tdir = tdir0
        /\ cmd.at = "done" =>
              /\ \A f \in Zips(tdir0) : VerdictOf(f) # {}
              /\ cmd.checked = Cardinality(Zips(tdir0))
              /\ cmd.errors = Cardinality(FailedArchives)

\* the command ran with --delete: the first archive it verified was corrupt
\* and was removed, the second one verified and is in place
C21_Witness ==
    /\ cmd.at = "done"
    /\ cmd.delete
    /\ Len(cmd.verdicts) = 2
    /\ cmd.verdicts[1].result = "Err"
    /\ cmd.verdicts[2].result = "Ok(true)"
    /\ cmd.verdicts[1].file \notin DOMAIN tdir
    /\ cmd.verdicts[2].file \in DOMAIN tdir

\* the entries of the archive, none when the file is no archive
ArchiveEntries ==
    IF tdir0[EXTRACTED_ZIP].type = "archive"
    THEN tdir0[EXTRACTED_ZIP].entries ELSE <<>>

\* the entries that cannot be extracted under the error io
FailingEntries(io) ==
    {i \in DOMAIN ArchiveEntries :
        \/ ~ArchiveEntries[i].header_ok
        \/ ~ArchiveEntries[i].data_ok
        \/ io.at = i}

Written(i) ==
    /\ ArchiveEntries[i].name \in DOMAIN tdir
    /\ tdir[ArchiveEntries[i].name] = ArchiveEntries[i].content

AsAtStart(i) ==
    IF ArchiveEntries[i].name \in DOMAIN tdir0
    THEN /\ ArchiveEntries[i].name \in DOMAIN tdir
         /\ tdir[ArchiveEntries[i].name] = tdir0[ArchiveEntries[i].name]
    ELSE ArchiveEntries[i].name \notin DOMAIN tdir

\* C22: extract_zip writes the entries in order over the existing targets; a
\* failure on an entry ends the call with an error and leaves the entries
\* before it written (and, in a first call, the ones after it untouched);
\* after a later call that succeeds the directory is the one a single
\* extraction without failure gives
C22_RerunEqualsUninterrupted ==
    extractions # <<>> =>
        LET last == extractions[Len(extractions)]
            failing == FailingEntries(last.io)
        IN  /\ tdir[EXTRACTED_ZIP] = tdir0[EXTRACTED_ZIP]
            /\ last.ok <=> (tdir0[EXTRACTED_ZIP].type = "archive"
                              /\ failing = {})
            /\ last.ok =>
                  /\ tdir = extract_zip(tdir0, EXTRACTED_ZIP).dir
                  /\ \A i \in DOMAIN ArchiveEntries : Written(i)
            /\ \A i \in failing :
                  (\A j \in failing : i <= j) =>
                      /\ \A j \in 1..(i - 1) : Written(j)
                      /\ Len(extractions) = 1 =>
                            \A j \in (i + 1)..Len(ArchiveEntries) :
                                AsAtStart(j)

\* a first call failed on the second entry, after it had written the first
\* over a file of an earlier extraction; the second call succeeded
C22_Witness ==
    /\ Len(extractions) = 2
    /\ ~extractions[1].ok
    /\ extractions[1].io.at = 2
    /\ extractions[2].ok
    /\ \A f \in EntryNames : f \in DOMAIN tdir0 /\ tdir[f] # tdir0[f]

\* C23: the download command exits with code 2 when the configuration is
\* invalid (parallel = 0), and then before the data directory is created or
\* a request is issued and with a diagnostic that mentions the parallel
\* setting; it exits with code 1 on a fatal error and with code 0 on success
C23_ExitCodes ==
    cli.at = "exited" =>
        /\ cli.parallel = 0 =>
              /\ cli.exit = <<2>>
              /\ "parallel" \in Range(cli.stderr)
              /\ phase = "idle" /\ xfer = <<>> /\ dir = <<>>
        /\ cli.parallel # 0 =>
              cli.exit = IF ret.result = "Ok" THEN <<0>> ELSE <<1>>

\* C24: download() called with max_parallel = 0 or max_retries = 0 returns
\* an InvalidConfig error, as DownloadConfig::validate does, and starts no
\* transfer
C24_InvalidConfigRejected ==
    (config.max_parallel = 0 \/ config.max_retries = 0) =>
        /\ phase \in {"idle", "returned"}
        /\ phase = "returned" => ret.result = "InvalidConfig"
        /\ xfer = <<>>

\* C29: the computation of a window never overflows, chunk_size = 0
\* included, and every chunked transfer that has begun ends with download()
\* returning (or the process being interrupted), an origin that answers a
\* range request with an empty body included
C29_ChunkedTransferReturns ==
    /\ [](/\ phase # "panicked"
          /\ \A f \in DOMAIN xfer :
                xfer[f].pc \in {"chunk", "sleep"} =>
                    ~RangeUnderflows(config, xfer[f].total_size,
                                     xfer[f].downloaded))
    /\ []((\E f \in DOMAIN xfer : xfer[f].pc \in {"chunk", "sleep"})
              => <>(phase \in {"returned", "killed"}))

\* C26: with restart, a partial local file of a selected entry is removed
\* before the transfer of the entry sends its first data request, on the
\* chunked and on the whole-file path: while the transfer runs and after it
\* failed the file holds none of the old bytes
C26_RestartRemovesPartial ==
    config.restart =>
        \A f \in DOMAIN xfer :
            (0 < xfer[f].preLen /\ xfer[f].preLen < FileSize
                /\ xfer[f].path # "none")
            => IF xfer[f].path = "chunked"
               THEN Len(dir[f]) = xfer[f].downloaded
               ELSE xfer[f].result # "Ok"
                        => (~Exists(dir, f) \/ dir[f] = <<>>)

\* the bytes 1..n of the origin
OriginPrefix(n) == SubSeq(Origin, 1, n)

CANONICAL_FILENAMES ==
    <<"Estabelecimentos0.zip", "Estabelecimentos1.zip",
      "Estabelecimentos2.zip", "Estabelecimentos3.zip",
      "Estabelecimentos4.zip", "Estabelecimentos5.zip",
      "Estabelecimentos6.zip", "Estabelecimentos7.zip",
      "Estabelecimentos8.zip", "Estabelecimentos9.zip",
      "Empresas0.zip", "Empresas1.zip", "Empresas2.zip", "Empresas3.zip",
      "Empresas4.zip", "Empresas5.zip", "Empresas6.zip", "Empresas7.zip",
      "Empresas8.zip", "Empresas9.zip",
      "Socios0.zip", "Socios1.zip", "Socios2.zip", "Socios3.zip",
      "Socios4.zip", "Socios5.zip", "Socios6.zip", "Socios7.zip",
      "Socios8.zip", "Socios9.zip",
      "Cnaes.zip", "Motivos.zip", "Municipios.zip", "Naturezas.zip",
      "Paises.zip", "Qualificacoes.zip", "Simples.zip">>

\* C28: the catalog lists the canonical file names in the stated order; each
\* URL is the base URL, the directory of the period and the file name, and
\* filename_from_url returns that last segment
C28_CatalogOrder ==
    urls # <<>> =>
        /\ Len(urls) = Len(CANONICAL_FILENAMES)
        /\ \A i \in DOMAIN urls :
              /\ Len(urls[i]) = Len(BASE_URL) + 2
              /\ SubSeq(urls[i], 1, Len(BASE_URL)) = BASE_URL
              /\ urls[i][Len(BASE_URL) + 1] = get_year_month(now)
              /\ urls[i][Len(BASE_URL) + 2] = CANONICAL_FILENAMES[i]
              /\ filename_from_url(urls[i]) = CANONICAL_FILENAMES[i]

\* the catalog of a month with two digits was produced: its eleventh entry
\* is the first partition of the companies, its last one Simples.zip
C28_Witness ==
    /\ urls # <<>>
    /\ now.month >= 10
    /\ filename_from_url(urls[11]) = "Empresas0.zip"
    /\ filename_from_url(urls[Len(urls)]) = "Simples.zip"
    /\ urls[11][Len(BASE_URL) + 1] = "2025-" \o ToString(now.month)

\* C30: with skip_existing, a file an earlier failed run left incomplete is
\* not treated as done: when a later run returns success, every selected
\* file exists with the complete content of the origin
C30_PartialNeverDone ==
    (phase = "returned" /\ ret.result = "Ok" /\ config.skip_existing
        /\ prev \notin {"none", "killed", "Ok"} /\ honest)
        => \A i \in DOMAIN Selected :
               /\ Exists(dir, filename_from_url(Selected[i]))
               /\ dir[filename_from_url(Selected[i])] = Origin

====
